---------------------------- MODULE Spec2Model ----------------------------
(***************************************************************************)
(* A model of the gosem DLMS/COSEM client core:                            *)
(*   - the AARQ encoder (pkg/dlms/aarq.go) and the invocation counter,      *)
(*   - the attribute descriptor codec (pkg/dlms/attributeDescriptor.go),    *)
(*   - the Set operations of the client under its mutex                     *)
(*     (pkg/dlmsclient set requests),                                       *)
(*   - the client's connect / associate / disconnect life cycle,            *)
(*   - the A-XDR value encoder DlmsData.Encode (axdr/axdr.go).              *)
(* Byte strings are sequences of 0..255.  A uint32 is kept as its four      *)
(* big-endian bytes, so that its width (and its wrap-around) is exact.      *)
(***************************************************************************)
EXTENDS Integers, Sequences, FiniteSets, TLC

VARIABLES
    settings,       \* AARQ: the *Settings handed to EncodeAARQ
    prevSettings,   \* AARQ: the Settings as they were before the last call
    aarq,           \* AARQ: (out, err) of the last EncodeAARQ call
    aarqCalls,      \* AARQ: number of EncodeAARQ calls made so far
    startCounter,   \* AARQ: InvocationCounter at construction
    lastCfg,        \* AARQ: the Cipher config of the last CipherData call
    mutex,          \* client: the goroutine holding c.mutex, or Unlocked
    pc,             \* client: where each goroutine is in its call
    op,             \* client: the call each goroutine makes, with its arguments
    loc,            \* client: the locals of each goroutine's call
    ret,            \* client: what each goroutine's call returned
    inflight,       \* client: goroutines with a request on the transport
    transport,      \* life cycle: the transport (connected, calls it received)
    isAssociated,   \* life cycle: the association flag of the client
    last,           \* life cycle: the last operation of the client and its error
    ad,             \* descriptor: the AttributeDescriptor to encode
    adOut,          \* descriptor: what Encode returned
    buf,            \* descriptor: the caller's slice (*ori) handed to the decoder
    bufBefore,      \* descriptor: the caller's slice before the last decode
    adDec,          \* descriptor: (out, err) of the last DecodeAttributeDescriptor
    adSteps,        \* descriptor: number of decodes made
    dlms,           \* axdr: the DlmsData object
    dlmsBefore,     \* axdr: the object as it was when Encode was last called
    encoded         \* axdr: what the last Encode returned, or its panic

aarqVars == <<settings, prevSettings, aarq, aarqCalls, startCounter, lastCfg>>

clientVars == <<mutex, pc, op, loc, ret, inflight>>

lifeVars == <<transport, isAssociated, last>>

adVars == <<ad, adOut, buf, bufBefore, adDec, adSteps>>

dataVars == <<dlms, dlmsBefore, encoded>>

vars == <<aarqVars, clientVars, lifeVars, adVars, dataVars>>

-----------------------------------------------------------------------------
(* Bytes and fixed-width integers *)

Byte == 0..255

\* byte(x) of Go: the low 8 bits
ToByte(x) == x % 256

\* n copies of the byte b
Repeat(b, n) == [i \in 1..n |-> b]

\* uint32 values as 4 big-endian bytes
U32 == [1..4 -> Byte]

Max32 == <<255, 255, 255, 255>>
Zero32 == <<0, 0, 0, 0>>

\* a < b for two uint32
Lt32(a, b) ==
    \E i \in 1..4 : /\ a[i] < b[i]
                    /\ \A j \in 1..(i - 1) : a[j] = b[j]

\* the successor of c # Max32, without wrap
Succ32(c) ==
    LET k == CHOOSE i \in 1..4 : /\ c[i] < 255
                                 /\ \A j \in (i + 1)..4 : c[j] = 255
    IN  [i \in 1..4 |-> IF i < k THEN c[i] ELSE IF i = k THEN c[i] + 1 ELSE 0]

\* a mutant of Inc32: the counter is advanced by two
Inc32Twice(c) ==
    LET one == IF c = Max32 THEN Zero32 ELSE Succ32(c)
    IN  IF one = Max32 THEN Zero32 ELSE Succ32(one)

\* settings.Ciphering.InvocationCounter++ on a uint32: wraps at 0xFFFFFFFF
Inc32(c) == IF c = Max32 THEN Zero32 ELSE Succ32(c)


-----------------------------------------------------------------------------
(* pkg/dlms/aarq.go: constants *)

PduTypeApplicationContextName == 1
PduTypeCallingAPTitle == 6
PduTypeSenderAcseRequirements == 10
PduTypeMechanismName == 11
PduTypeCallingAuthenticationValue == 12
PduTypeUserInformation == 30

BERTypeContext == 128
BERTypeApplication == 64
BERTypeConstructed == 32

ApplicationContextLNNoCiphering == 1
ApplicationContextLNCiphering == 3

\* Defined outside aarq.go; the values are those the expected bytes of the
\* AARQ tests show (mechanism-name ... 02 01, security byte 30, tags 01 / 21).
AuthenticationNone == 0
AuthenticationLow == 1
SecurityNone == 0
SecurityAuthentication == 16
SecurityEncryption == 32
TagInitiateRequest == 1
TagGloInitiateRequest == 33

\* the error values of EncodeAARQ
NoError == "nil"
ErrPasswordRequired == "password is required for authentication"
ErrCipher == "cipher error"

\* a nil / empty []byte
Nil == <<>>

-----------------------------------------------------------------------------
(* The A-XDR length prefix, as CipherData writes it *)

EncodeLength(n) ==
    IF n < 128 THEN <<n>>
    ELSE IF n < 256 THEN <<129, n>>
    ELSE <<130, (n \div 256) % 256, n % 256>>

\* Whether CipherData can fail / succeed on a configuration.  A missing key is
\* an error; the complete configuration of the test succeeds; what a
\* configuration with a key but no system title does is left open.
CipherOutcomes(cfg) ==
    IF Len(cfg.Key) = 0 THEN {FALSE}
    ELSE IF Len(cfg.SystemTitle) = 0 THEN {TRUE, FALSE}
    ELSE {TRUE}

\* The GLO frame: tag, length, security byte, invocation counter, ciphertext
\* and the 12-byte authentication tag.  The AES-GCM bytes themselves are
\* opaque here: a byte-wise image of the plaintext of the same length.
CipherData(cfg, data, ok) ==
    IF ~ok THEN [out |-> Nil, err |-> ErrCipher]
    ELSE LET ct   == [i \in 1..Len(data) |-> (data[i] + cfg.Key[1] + cfg.FrameCounter[4] + i) % 256]
             body == <<cfg.Security>> \o cfg.FrameCounter \o ct \o Repeat(0, 12)
         IN  [out |-> <<cfg.Tag>> \o EncodeLength(Len(body)) \o body, err |-> NoError]

-----------------------------------------------------------------------------
(* pkg/dlms/aarq.go: the encoder *)

\* a mutant of generateApplicationContextName: the context name ignores the
\* system title
generateApplicationContextNameBySecurity(s) ==
    <<BERTypeContext + BERTypeConstructed + PduTypeApplicationContextName>>
    \o <<9, 6, 7, 96, 133, 116, 5, 8, 1>>
    \o (IF s.Ciphering.Security = SecurityNone
        THEN <<ApplicationContextLNNoCiphering>>
        ELSE <<ApplicationContextLNCiphering>>)
    \o (IF Len(s.Ciphering.SystemTitle) > 0
        THEN <<BERTypeContext + BERTypeConstructed + PduTypeCallingAPTitle>>
             \o <<10, 4, 8>> \o s.Ciphering.SystemTitle
        ELSE <<>>)

generateApplicationContextName(s) ==
    <<BERTypeContext + BERTypeConstructed + PduTypeApplicationContextName>>
    \o <<9, 6, 7, 96, 133, 116, 5, 8, 1>>
    \o (IF s.Ciphering.Security = SecurityNone /\ Len(s.Ciphering.SystemTitle) = 0
        THEN <<ApplicationContextLNNoCiphering>>
        ELSE <<ApplicationContextLNCiphering>>)
    \o (IF Len(s.Ciphering.SystemTitle) > 0
        THEN <<BERTypeContext + BERTypeConstructed + PduTypeCallingAPTitle>>
             \o <<10, 4, 8>> \o s.Ciphering.SystemTitle
        ELSE <<>>)

\* a mutant of generateAuthentication: the missing password is not reported
generateAuthenticationNoCheck(s) ==
    IF s.Authentication # AuthenticationNone
    THEN [out |-> <<BERTypeContext + PduTypeSenderAcseRequirements, 2, 7, 128>>
                  \o <<BERTypeContext + PduTypeMechanismName, 7, 96, 133, 116, 5, 8, 2>>
                  \o <<ToByte(s.Authentication)>>
                  \o <<BERTypeContext + BERTypeConstructed + PduTypeCallingAuthenticationValue>>
                  \o <<ToByte(2 + Len(s.Password)), 128, ToByte(Len(s.Password))>>
                  \o s.Password,
          err |-> NoError]
    ELSE [out |-> <<>>, err |-> NoError]

generateAuthentication(s) ==
    IF s.Authentication # AuthenticationNone
    THEN [out |-> <<BERTypeContext + PduTypeSenderAcseRequirements, 2, 7, 128>>
                  \o <<BERTypeContext + PduTypeMechanismName, 7, 96, 133, 116, 5, 8, 2>>
                  \o <<ToByte(s.Authentication)>>
                  \o <<BERTypeContext + BERTypeConstructed + PduTypeCallingAuthenticationValue>>
                  \o <<ToByte(2 + Len(s.Password)), 128, ToByte(Len(s.Password))>>
                  \o s.Password,
          err |-> IF Len(s.Password) = 0 THEN ErrPasswordRequired ELSE NoError]
    ELSE [out |-> <<>>, err |-> NoError]

getInitiateRequest(s) ==
    <<ToByte(TagInitiateRequest)>>
    \o (IF s.Ciphering.Security = SecurityNone \/ Len(s.Ciphering.DedicatedKey) = 0
        THEN <<0>>
        ELSE <<1, ToByte(Len(s.Ciphering.DedicatedKey))>> \o s.Ciphering.DedicatedKey)
    \o <<0, 0, 6, 95, 31, 4, 0, 0, 24, 31>>
    \o <<(s.MaxPduSize \div 256) % 256, s.MaxPduSize % 256>>

\* the Cipher configuration generateUserInformation builds
CipherCfg(s) ==
    [Tag          |-> TagGloInitiateRequest,
     Security     |-> s.Ciphering.Security,
     SystemTitle  |-> s.Ciphering.SystemTitle,
     Key          |-> s.Ciphering.UnicastKey,
     AuthKey      |-> s.Ciphering.AuthenticationKey,
     FrameCounter |-> s.Ciphering.InvocationCounter]

NoCfg == [Tag |-> 0, Security |-> SecurityNone, SystemTitle |-> Nil, Key |-> Nil,
          AuthKey |-> Nil, FrameCounter |-> Zero32]

\* the user-information field around an initiate-request
UserInformationBytes(initiateRequest) ==
    <<BERTypeContext + BERTypeConstructed + PduTypeUserInformation>>
    \o <<ToByte(2 + Len(initiateRequest)), 4, ToByte(Len(initiateRequest))>>
    \o initiateRequest

\* a mutant of generateUserInformation: the counter is advanced only when
\* CipherData succeeds
generateUserInformationCountsOnSuccess(s, ok) ==
    IF s.Ciphering.Security # SecurityNone
    THEN LET cfg == CipherCfg(s)
             s2  == [s EXCEPT !.Ciphering.InvocationCounter = Inc32(@)]
             c   == CipherData(cfg, getInitiateRequest(s), ok)
         IN  IF c.err # NoError
             THEN [out |-> Nil, err |-> c.err, settings |-> s, cfg |-> cfg]
             ELSE [out |-> UserInformationBytes(c.out), err |-> NoError,
                   settings |-> s2, cfg |-> cfg]
    ELSE [out |-> UserInformationBytes(getInitiateRequest(s)), err |-> NoError,
          settings |-> s, cfg |-> NoCfg]

\* (out, err), the settings as the call leaves them, and the Cipher
\* configuration it used; ok is whether CipherData succeeds
generateUserInformation(s, ok) ==
    IF s.Ciphering.Security # SecurityNone
    THEN LET cfg == CipherCfg(s)
             s2  == [s EXCEPT !.Ciphering.InvocationCounter = Inc32(@)]
             c   == CipherData(cfg, getInitiateRequest(s), ok)
         IN  IF c.err # NoError
             THEN [out |-> Nil, err |-> c.err, settings |-> s2, cfg |-> cfg]
             ELSE [out |-> UserInformationBytes(c.out), err |-> NoError,
                   settings |-> s2, cfg |-> cfg]
    ELSE [out |-> UserInformationBytes(getInitiateRequest(s)), err |-> NoError,
          settings |-> s, cfg |-> NoCfg]

\* out[1] = byte(len(out) - 2), on the 1-based sequence
WithLength(out) == [out EXCEPT ![2] = ToByte(Len(out) - 2)]

EncodeAARQ(s, ok) ==
    LET head == <<BERTypeApplication + BERTypeConstructed, 0>>
                \o generateApplicationContextName(s)
        auth == generateAuthentication(s)
        ui   == generateUserInformation(s, ok)
    IN  IF auth.err # NoError
        THEN [out |-> Nil, err |-> auth.err, settings |-> s, cfg |-> NoCfg]
        ELSE IF ui.err # NoError
        THEN [out |-> Nil, err |-> ui.err, settings |-> ui.settings, cfg |-> ui.cfg]
        ELSE [out |-> WithLength(head \o auth.out \o ui.out), err |-> NoError,
              settings |-> ui.settings, cfg |-> ui.cfg]

-----------------------------------------------------------------------------
(* The settings EncodeAARQ is called on *)

\* number of EncodeAARQ calls on one Settings
MaxCalls == 3
\* length of the long password
LongPasswordLen == 254

Password8 == <<49, 50, 51, 52, 53, 54, 55, 56>>
SystemTitle8 == <<67, 73, 82, 0, 0, 0, 0, 1>>
Key16 == <<0, 17, 34, 51, 68, 85, 102, 119, 136, 153, 170, 187, 204, 221, 238, 255>>
DedicatedKey16 == <<232, 3, 115, 157, 190, 51, 140, 58, 121, 13, 141, 27, 18, 198, 63, 226>>

Passwords == {Nil, Password8, Repeat(65, LongPasswordLen)}
Securities == {SecurityNone, SecurityAuthentication, SecurityEncryption,
               SecurityEncryption + SecurityAuthentication}
Counters == {Zero32, <<0, 0, 1, 7>>, <<255, 255, 255, 254>>, Max32}
MaxPduSizes == {256, 512, 1024}

SettingsSet ==
    [Authentication : {AuthenticationNone, AuthenticationLow},
     Password       : Passwords,
     MaxPduSize     : MaxPduSizes,
     Ciphering      : [Security          : Securities,
                       SystemTitle       : {Nil, SystemTitle8},
                       UnicastKey        : {Nil, Key16},
                       AuthenticationKey : {Key16},
                       DedicatedKey      : {Nil, DedicatedKey16},
                       InvocationCounter : Counters]]

NoResult == [out |-> Nil, err |-> NoError]

\* the AARQ part of the state when no EncodeAARQ call has been made
AarqIdle(s) ==
    /\ settings = s
    /\ prevSettings = s
    /\ startCounter = s.Ciphering.InvocationCounter
    /\ aarq = NoResult
    /\ aarqCalls = 0
    /\ lastCfg = NoCfg

DefaultSettings ==
    [Authentication |-> AuthenticationNone, Password |-> Nil, MaxPduSize |-> 256,
     Ciphering |-> [Security |-> SecurityNone, SystemTitle |-> Nil, UnicastKey |-> Nil,
                    AuthenticationKey |-> Key16, DedicatedKey |-> Nil,
                    InvocationCounter |-> Zero32]]

-----------------------------------------------------------------------------
(* pkg/dlmsclient: SetRequest and SetRequestWithStructOfElements *)

\* number of goroutines sharing one client
NumGoroutines == 2
\* largest number of fields of the struct handed to the bulk set
MaxFields == 2

Goroutines == 1..NumGoroutines
Unlocked == 0

\* dlms.TagAccSuccess and two other data-access-results
TagAccSuccess == 0
TagAccReadWriteDenied == 3
TagAccOtherReason == 250
AccessResults == {TagAccSuccess, TagAccReadWriteDenied, TagAccOtherReason}

\* error codes of dlms.Error, and the errors of the collaborators
ErrorInvalidParameter == "InvalidParameter"
ErrorInvalidResponse == "InvalidResponse"
ErrorSetRejected == "SetRejected"
ErrorSetPartial == "SetPartial"
\* errors encodeSendReceiveAndDecode may return
SendErrors == {"CommunicationFailed", "DecodeFailed"}
\* the error of getAttributeDescriptor
DescriptorError == "DescriptorError"
\* a goroutine that panicked (nil *DlmsData dereferenced)
Panicked == "panic"
NotReturned == "none"

\* what encodeSendReceiveAndDecode can hand back
Replies ==
    [kind : {"error"}, err : SendErrors, result : {TagAccSuccess}]
    \cup [kind : {"SetResponseNormal"}, err : {NoError}, result : AccessResults]
    \cup [kind : {"OtherPdu"}, err : {NoError}, result : {TagAccSuccess}]

\* the kinds of data argument: a *DlmsData, a nil *DlmsData, a value
\* MarshalData accepts, a value it rejects
DataKinds == {"DlmsData", "NilDlmsData", "Marshalable", "Unmarshalable"}

\* the kinds of struct field: getAttributeDescriptor fails, the field has no
\* descriptor, the field is a nil pointer, or the field is set with its data
FieldKinds == {"DescriptorError", "NoDescriptor", "NilPointer",
               "DlmsData", "Marshalable", "Unmarshalable"}

NoOp == [kind |-> "none", att |-> "nil", data |-> "DlmsData", isStruct |-> FALSE,
         numField |-> 0, continueOnSetRejected |-> FALSE]

SetRequestCalls ==
    [kind : {"SetRequest"}, att : {"nil", "ad"}, data : DataKinds,
     isStruct : {FALSE}, numField : {0}, continueOnSetRejected : {FALSE}]

BulkCalls ==
    [kind : {"SetRequestWithStructOfElements"}, att : {"nil"}, data : {"DlmsData"},
     isStruct : {TRUE}, numField : 0..MaxFields, continueOnSetRejected : BOOLEAN]
    \cup [kind : {"SetRequestWithStructOfElements"}, att : {"nil"}, data : {"DlmsData"},
          isStruct : {FALSE}, numField : {0}, continueOnSetRejected : BOOLEAN]

\* no reply received yet
NoReply == [kind |-> "none", err |-> NoError, result |-> TagAccSuccess]

\* the locals of a call, the requests it has sent (field index and kind of
\* data), the last reply it received, and the fields the loop has gone
\* through with what became of each
NoLocals == [i |-> 0, errSet |-> NoError, isSomethingDone |-> FALSE,
             isSomethingFailed |-> FALSE, sent |-> <<>>, reply |-> NoReply,
             seen |-> <<>>]

\* a field the loop passed over without calling setRequest
Skipped == "skipped"

\* the locals once the loop is through with field v.Field(l.i)
Seen(l, field, e) == [l EXCEPT !.seen = Append(@, [field |-> field, err |-> e])]

ClientIdle ==
    /\ mutex = Unlocked
    /\ pc = [g \in Goroutines |-> "idle"]
    /\ op = [g \in Goroutines |-> NoOp]
    /\ loc = [g \in Goroutines |-> NoLocals]
    /\ ret = [g \in Goroutines |-> NotReturned]
    /\ inflight = {}

\* a mutant of setRequestCheck: the descriptor is not checked for nil
setRequestCheckNoNilCheck(att, data) ==
    IF data = "Unmarshalable" THEN ErrorInvalidParameter
    ELSE IF data = "NilDlmsData" THEN Panicked
    ELSE NoError

\* setRequest up to the call of encodeSendReceiveAndDecode: the error it
\* returns, Panicked, or NoError when the request is sent
setRequestCheck(att, data) ==
    IF att = "nil" THEN ErrorInvalidParameter
    ELSE IF data = "Unmarshalable" THEN ErrorInvalidParameter
    ELSE IF data = "NilDlmsData" THEN Panicked
    ELSE NoError

\* a mutant of setRequestResult: the Result of the response is not looked at
setRequestResultIgnoringResult(reply) ==
    IF reply.kind = "error" THEN reply.err
    ELSE IF reply.kind # "SetResponseNormal" THEN ErrorInvalidResponse
    ELSE NoError

\* setRequest from the return of encodeSendReceiveAndDecode on
setRequestResult(reply) ==
    IF reply.kind = "error" THEN reply.err
    ELSE IF reply.kind # "SetResponseNormal" THEN ErrorInvalidResponse
    ELSE IF reply.result # TagAccSuccess THEN ErrorSetRejected
    ELSE NoError

\* a mutant of Lock: the mutex is taken without waiting for it
LockWithoutWaiting(g) ==
    /\ pc[g] = "lock"
    /\ mutex' = g
    /\ pc' = [pc EXCEPT ![g] = "entry"]
    /\ UNCHANGED <<op, loc, ret, inflight>>
    /\ UNCHANGED <<aarqVars, lifeVars, adVars, dataVars>>

\* a goroutine calls one of the two operations
Call(g) ==
    /\ pc[g] = "idle"
    /\ \E k \in {"SetRequest", "SetRequestWithStructOfElements"} :
          op' = [op EXCEPT ![g] = [NoOp EXCEPT !.kind = k]]
    /\ pc' = [pc EXCEPT ![g] = "lock"]
    /\ UNCHANGED <<mutex, loc, ret, inflight>>
    /\ UNCHANGED <<aarqVars, lifeVars, adVars, dataVars>>

\* c.mutex.Lock()
Lock(g) ==
    /\ pc[g] = "lock"
    /\ mutex = Unlocked
    /\ mutex' = g
    /\ pc' = [pc EXCEPT ![g] = "entry"]
    /\ UNCHANGED <<op, loc, ret, inflight>>
    /\ UNCHANGED <<aarqVars, lifeVars, adVars, dataVars>>

\* the request of goroutine g goes out on the transport
Send(g, field) ==
    /\ inflight' = inflight \cup {g}
    /\ loc' = [loc EXCEPT ![g].sent = Append(@, <<loc[g].i, field>>)]
    /\ pc' = [pc EXCEPT ![g] = "wait"]

\* the operation is over but for the deferred Unlock
Finish(g, e) ==
    /\ ret' = [ret EXCEPT ![g] = e]
    /\ pc' = [pc EXCEPT ![g] = "unlock"]

\* SetRequest: setRequest(att, data) up to the send
SetRequest(g) ==
    /\ pc[g] = "entry"
    /\ op[g].kind = "SetRequest"
    /\ \E c \in SetRequestCalls :
          /\ op' = [op EXCEPT ![g] = c]
          /\ LET e == setRequestCheck(c.att, c.data)
             IN  IF e = NoError
                 THEN Send(g, c.data) /\ UNCHANGED ret
                 ELSE Finish(g, e) /\ UNCHANGED <<loc, inflight>>
    /\ UNCHANGED mutex
    /\ UNCHANGED <<aarqVars, lifeVars, adVars, dataVars>>

\* SetRequest: the reply arrives and setRequest returns
SetRequestReply(g) ==
    /\ pc[g] = "wait"
    /\ op[g].kind = "SetRequest"
    /\ \E reply \in Replies :
          /\ Finish(g, setRequestResult(reply))
          /\ loc' = [loc EXCEPT ![g].reply = reply]
    /\ inflight' = inflight \ {g}
    /\ UNCHANGED <<mutex, op>>
    /\ UNCHANGED <<aarqVars, lifeVars, adVars, dataVars>>

\* SetRequestWithStructOfElements: the struct check and the locals
SetRequestWithStructOfElements(g) ==
    /\ pc[g] = "entry"
    /\ op[g].kind = "SetRequestWithStructOfElements"
    /\ \E c \in BulkCalls :
          /\ op' = [op EXCEPT ![g] = c]
          /\ IF ~c.isStruct
             THEN Finish(g, ErrorInvalidParameter)
             ELSE pc' = [pc EXCEPT ![g] = "loop"] /\ UNCHANGED ret
    /\ UNCHANGED <<mutex, loc, inflight>>
    /\ UNCHANGED <<aarqVars, lifeVars, adVars, dataVars>>

\* a mutant of SetFailed: a failure that ends the loop is always reported as
\* a partial set
SetFailedAlwaysPartial(l, e, continueOnSetRejected) ==
    IF e = ErrorSetRejected /\ continueOnSetRejected
    THEN [return |-> FALSE, err |-> NoError,
          loc |-> [l EXCEPT !.isSomethingFailed = TRUE, !.errSet = e, !.i = @ + 1]]
    ELSE [return |-> TRUE, err |-> ErrorSetPartial, loc |-> l]

\* a mutant of SetFailed: no failure ends the loop
SetFailedNeverReturns(l, e, continueOnSetRejected) ==
    [return |-> FALSE, err |-> NoError,
     loc |-> [l EXCEPT !.isSomethingFailed = TRUE, !.errSet = e, !.i = @ + 1]]

\* the error branch of the loop: the locals after a failed set that does not
\* end the loop, or the error returned
SetFailed(l, e, continueOnSetRejected) ==
    IF e = ErrorSetRejected /\ continueOnSetRejected
    THEN [return |-> FALSE, err |-> NoError,
          loc |-> [l EXCEPT !.isSomethingFailed = TRUE, !.errSet = e, !.i = @ + 1]]
    ELSE [return |-> TRUE,
          err |-> IF l.isSomethingDone THEN ErrorSetPartial ELSE e,
          loc |-> l]

\* what the bulk set returns after the loop
BulkResult(l) ==
    IF l.isSomethingFailed /\ l.isSomethingDone THEN ErrorSetPartial ELSE l.errSet

\* one iteration of the loop up to the send, or the end of the loop
BulkLoop(g) ==
    /\ pc[g] = "loop"
    /\ IF loc[g].i >= op[g].numField
       THEN Finish(g, BulkResult(loc[g])) /\ UNCHANGED <<loc, inflight>>
       ELSE \E field \in FieldKinds :
              CASE field = "DescriptorError" ->
                     /\ Finish(g, DescriptorError)
                     /\ loc' = [loc EXCEPT ![g] = Seen(@, field, DescriptorError)]
                     /\ UNCHANGED inflight
                [] field \in {"NoDescriptor", "NilPointer"} ->
                     /\ loc' = [loc EXCEPT ![g] = [Seen(@, field, Skipped) EXCEPT !.i = @ + 1]]
                     /\ UNCHANGED <<pc, ret, inflight>>
                [] OTHER ->
                     LET e == setRequestCheck("ad", field)
                         l == Seen(loc[g], field, e)
                         f == SetFailed(l, e, op[g].continueOnSetRejected)
                     IN  IF e = NoError
                         THEN Send(g, field) /\ UNCHANGED ret
                         ELSE IF f.return
                         THEN /\ Finish(g, f.err)
                              /\ loc' = [loc EXCEPT ![g] = l]
                              /\ UNCHANGED inflight
                         ELSE /\ loc' = [loc EXCEPT ![g] = f.loc]
                              /\ UNCHANGED <<pc, ret, inflight>>
    /\ UNCHANGED <<mutex, op>>
    /\ UNCHANGED <<aarqVars, lifeVars, adVars, dataVars>>

\* the reply to one set of the loop arrives
BulkReply(g) ==
    /\ pc[g] = "wait"
    /\ op[g].kind = "SetRequestWithStructOfElements"
    /\ inflight' = inflight \ {g}
    /\ \E reply \in Replies :
          LET e == setRequestResult(reply)
              l == [Seen(loc[g], loc[g].sent[Len(loc[g].sent)][2], e)
                        EXCEPT !.reply = reply]
              f == SetFailed(l, e, op[g].continueOnSetRejected)
          IN  IF e = NoError
              THEN /\ loc' = [loc EXCEPT ![g] = [l EXCEPT !.isSomethingDone = TRUE,
                                                          !.i = @ + 1]]
                   /\ pc' = [pc EXCEPT ![g] = "loop"]
                   /\ UNCHANGED ret
              ELSE IF f.return
              THEN Finish(g, f.err) /\ loc' = [loc EXCEPT ![g] = l]
              ELSE /\ loc' = [loc EXCEPT ![g] = f.loc]
                   /\ pc' = [pc EXCEPT ![g] = "loop"]
                   /\ UNCHANGED ret
    /\ UNCHANGED <<mutex, op>>
    /\ UNCHANGED <<aarqVars, lifeVars, adVars, dataVars>>

\* defer c.mutex.Unlock(), and the operation returns
Unlock(g) ==
    /\ pc[g] = "unlock"
    /\ mutex' = Unlocked
    /\ pc' = [pc EXCEPT ![g] = "done"]
    /\ op' = [op EXCEPT ![g] = NoOp]
    /\ loc' = [loc EXCEPT ![g] = NoLocals]
    /\ UNCHANGED <<ret, inflight>>
    /\ UNCHANGED <<aarqVars, lifeVars, adVars, dataVars>>

-----------------------------------------------------------------------------
(* pkg/client: Connect, Associate, Disconnect, IsAssociated *)

\* number of operations on one client
MaxOperations == 5

ErrTransport == "transport error"
ErrNotConnected == "NotConnected"
ErrAssociationRejected == "AssociationRejected"

\* client.New(settings, transport): nothing connected, nothing called; the
\* transport counts the calls it receives and keeps the error of the last
ClientNew ==
    /\ transport = [connected |-> FALSE, Connect |-> 0, Disconnect |-> 0, Send |-> 0,
                    err |-> NoError]
    /\ isAssociated = FALSE
    /\ last = [op |-> "New", err |-> NoError, n |-> 0]

\* Client.IsConnected and Client.IsAssociated: both ask the transport
IsConnected == transport.connected
IsAssociated == transport.connected /\ isAssociated

Done(name, err) == last' = [op |-> name, err |-> err, n |-> last.n + 1]

\* Client.Connect: the transport's Connect and its error
Connect ==
    /\ last.n < MaxOperations
    /\ \E ok \in BOOLEAN :
          /\ transport' = [transport EXCEPT !.Connect = @ + 1,
                                            !.connected = IF ok THEN TRUE ELSE @,
                                            !.err = IF ok THEN NoError ELSE ErrTransport]
          /\ Done("Connect", IF ok THEN NoError ELSE ErrTransport)
    /\ UNCHANGED isAssociated
    /\ UNCHANGED <<aarqVars, clientVars, adVars, dataVars>>

\* Client.Associate: the AARQ is sent on a connected transport; an accepted
\* AARE associates the client
Associate ==
    /\ last.n < MaxOperations
    /\ IF ~transport.connected
       THEN Done("Associate", ErrNotConnected) /\ UNCHANGED <<transport, isAssociated>>
       ELSE \E outcome \in {"accepted", "rejected", "error"} :
              /\ transport' = [transport EXCEPT !.Send = @ + 1,
                                                !.err = IF outcome = "error"
                                                        THEN ErrTransport ELSE NoError]
              /\ isAssociated' = (outcome = "accepted")
              /\ Done("Associate",
                      CASE outcome = "accepted" -> NoError
                        [] outcome = "rejected" -> ErrAssociationRejected
                        [] OTHER -> ErrTransport)
    /\ UNCHANGED <<aarqVars, clientVars, adVars, dataVars>>

\* a mutant of Disconnect: the transport is closed only when it is connected
DisconnectIfConnected ==
    /\ last.n < MaxOperations
    /\ IF ~transport.connected
       THEN Done("Disconnect", NoError) /\ UNCHANGED <<transport, isAssociated>>
       ELSE /\ transport' = [transport EXCEPT !.Disconnect = @ + 1, !.connected = FALSE,
                                              !.err = NoError]
            /\ Done("Disconnect", NoError)
            /\ isAssociated' = FALSE
    /\ UNCHANGED <<aarqVars, clientVars, adVars, dataVars>>

\* Client.Disconnect: the transport's Disconnect, in every state, and its error
Disconnect ==
    /\ last.n < MaxOperations
    /\ \E ok \in BOOLEAN :
          /\ transport' = [transport EXCEPT !.Disconnect = @ + 1,
                                            !.connected = IF ok THEN FALSE ELSE @,
                                            !.err = IF ok THEN NoError ELSE ErrTransport]
          /\ Done("Disconnect", IF ok THEN NoError ELSE ErrTransport)
    /\ isAssociated' = FALSE
    /\ UNCHANGED <<aarqVars, clientVars, adVars, dataVars>>

-----------------------------------------------------------------------------
(* pkg/dlms/attributeDescriptor.go: AttributeDescriptor *)

\* longest buffer handed to the decoder
MaxBufLen == 19
\* number of decodes on one buffer
MaxDecodes == 2

ErrTooShort == "byte slice length must be at least 9 bytes"
ErrLengthLess == "not enough byte length"

\* binary.BigEndian.PutUint16
PutUint16(v) == <<(v \div 256) % 256, v % 256>>

\* int8(b) of a byte
ToInt8(b) == IF b >= 128 THEN b - 256 ELSE b

\* Obis.Bytes(): the six bytes of the OBIS code
ObisBytes(o) == [i \in 1..6 |-> o.bytes[i]]

\* the bytes of s from position n + 1 on: s[n:]
Drop(s, n) == SubSeq(s, n + 1, Len(s))

AttributeDescriptorEncode(a) ==
    PutUint16(a.ClassID) \o ObisBytes(a.InstanceID) \o <<ToByte(a.AttributeID)>>

\* axdr.DecodeLongUnsigned: two bytes, big-endian; the slice moves on success
DecodeLongUnsigned(src) ==
    IF Len(src) < 2
    THEN [err |-> ErrLengthLess, val |-> 0, src |-> src]
    ELSE [err |-> NoError, val |-> src[1] * 256 + src[2], src |-> Drop(src, 2)]

\* dlms.DecodeObis: six bytes; the slice moves on success
DecodeObis(src) ==
    IF Len(src) < 6
    THEN [err |-> ErrLengthLess, val |-> [bytes |-> <<0, 0, 0, 0, 0, 0>>], src |-> src]
    ELSE [err |-> NoError, val |-> [bytes |-> SubSeq(src, 1, 6)], src |-> Drop(src, 6)]

ZeroDescriptor ==
    [ClassID |-> 0, InstanceID |-> [bytes |-> <<0, 0, 0, 0, 0, 0>>], AttributeID |-> 0]

\* a mutant of DecodeAttributeDescriptor: it decodes on the caller's slice,
\* without the copy and without the length check
DecodeAttributeDescriptorInPlace(ori) ==
    LET lu == DecodeLongUnsigned(ori)
        ob == DecodeObis(lu.src)
    IN  IF lu.err # NoError
        THEN [out |-> ZeroDescriptor, err |-> lu.err, ori |-> ori]
        ELSE IF ob.err # NoError
        THEN [out |-> [ZeroDescriptor EXCEPT !.ClassID = lu.val], err |-> ob.err,
              ori |-> lu.src]
        ELSE IF Len(ob.src) = 0
        THEN [out |-> [ZeroDescriptor EXCEPT !.ClassID = lu.val], err |-> Panicked,
              ori |-> ob.src]
        ELSE [out |-> [ClassID |-> lu.val, InstanceID |-> ob.val,
                       AttributeID |-> ToInt8(ob.src[1])],
              err |-> NoError, ori |-> Drop(ob.src, 1)]

\* (out, err) and the caller's slice as the call leaves it
DecodeAttributeDescriptor(ori) ==
    LET src == ori
        lu  == DecodeLongUnsigned(src)
        ob  == DecodeObis(lu.src)
        end == Drop(ob.src, 1)
    IN  IF Len(src) < 9
        THEN [out |-> ZeroDescriptor, err |-> ErrTooShort, ori |-> ori]
        ELSE IF lu.err # NoError
        THEN [out |-> ZeroDescriptor, err |-> lu.err, ori |-> ori]
        ELSE IF ob.err # NoError
        THEN [out |-> [ZeroDescriptor EXCEPT !.ClassID = lu.val], err |-> ob.err,
              ori |-> ori]
        ELSE [out |-> [ClassID |-> lu.val, InstanceID |-> ob.val,
                       AttributeID |-> ToInt8(ob.src[1])],
              err |-> NoError,
              ori |-> Drop(ori, Len(ori) - Len(end))]

ClassIDs == {0, 1, 8, 255, 256, 65535}
ObisCodes == {[bytes |-> <<1, 0, 1, 8, 0, 255>>], [bytes |-> <<0, 0, 1, 0, 0, 255>>],
              [bytes |-> <<0, 0, 0, 0, 0, 0>>]}
AttributeIDs == {0 - 128, 0 - 1, 0, 2, 127}

Descriptors == [ClassID : ClassIDs, InstanceID : ObisCodes, AttributeID : AttributeIDs]

\* n bytes that belong to no descriptor
Filler(n) == [i \in 1..n |-> 170]

\* the first n bytes of two encoded descriptors followed by other bytes
Buffer(a, n) ==
    SubSeq(AttributeDescriptorEncode(a) \o AttributeDescriptorEncode(a) \o Filler(n), 1, n)

NoDecode == [out |-> ZeroDescriptor, err |-> NoError]

DescriptorIdle ==
    /\ ad = ZeroDescriptor
    /\ adOut = Nil
    /\ buf = Nil
    /\ bufBefore = Nil
    /\ adDec = NoDecode
    /\ adSteps = 0

\* ad.Encode()
Encode ==
    /\ adOut = Nil
    /\ adOut' = AttributeDescriptorEncode(ad)
    /\ UNCHANGED <<ad, buf, bufBefore, adDec, adSteps>>
    /\ UNCHANGED <<aarqVars, clientVars, lifeVars, dataVars>>

\* DecodeAttributeDescriptor(&buf)
Decode ==
    /\ adSteps < MaxDecodes
    /\ LET r == DecodeAttributeDescriptor(buf)
       IN  /\ buf' = r.ori
           /\ adDec' = [out |-> r.out, err |-> r.err]
    /\ bufBefore' = buf
    /\ adSteps' = adSteps + 1
    /\ UNCHANGED <<ad, adOut>>
    /\ UNCHANGED <<aarqVars, clientVars, lifeVars, dataVars>>

-----------------------------------------------------------------------------
(* axdr/axdr.go: the data tags *)

TagNull == 0
TagArray == 1
TagStructure == 2
TagBoolean == 3
TagBitString == 4
TagDoubleLong == 5
TagDoubleLongUnsigned == 6
TagFloatingPoint == 7
TagOctetString == 9
TagVisibleString == 10
TagUTF8String == 12
TagBCD == 13
TagInteger == 15
TagLong == 16
TagUnsigned == 17
TagLongUnsigned == 18
TagCompactArray == 19
TagLong64 == 20
TagLong64Unsigned == 21
TagEnum == 22
TagFloat32 == 23
TagFloat64 == 24
TagDateTime == 25
TagDate == 26
TagTime == 27
TagDontCare == 255

\* the keys of dataTagMapInt
DefinedTags ==
    {TagNull, TagArray, TagStructure, TagBoolean, TagBitString, TagDoubleLong,
     TagDoubleLongUnsigned, TagFloatingPoint, TagOctetString, TagVisibleString,
     TagUTF8String, TagBCD, TagInteger, TagLong, TagUnsigned, TagLongUnsigned,
     TagCompactArray, TagLong64, TagLong64Unsigned, TagEnum, TagFloat32,
     TagFloat64, TagDateTime, TagDate, TagTime, TagDontCare}

-----------------------------------------------------------------------------
(* axdr/axdr.go: Go values held in the interface{} field Value *)

\* A Go value: its dynamic type and its content.  num holds a number or a
\* boolean (1 / 0), str the characters of a string (or the fields of a
\* time.Time: year, month, day, hour, minute, second), elems the elements of
\* a []*DlmsData.
GoValue(type, num, str, elems) ==
    [type |-> type, num |-> num, str |-> str, elems |-> elems]

NilValue == GoValue("nil", 0, <<>>, <<>>)
Bool(b) == GoValue("bool", IF b THEN 1 ELSE 0, <<>>, <<>>)
String(s) == GoValue("string", 0, s, <<>>)
Number(type, n) == GoValue(type, n, <<>>, <<>>)
Time(y, mo, dd, h, mi, s) == GoValue("time.Time", 0, <<y, mo, dd, h, mi, s>>, <<>>)
Slice(elems) == GoValue("[]*DlmsData", 0, <<>>, elems)

\* DlmsData{Tag: tag, Value: value}: rawValue and raw start empty
DlmsData(tag, value) ==
    [Tag |-> tag, Value |-> value, rawValue |-> <<>>, raw |-> <<>>]

\* the panics of Encode
NoPanic == "none"
PanicNilValue == "Value to encode cannot be nil"
PanicDataType == "Cannot encode value with tag"
PanicNotImplemented == "Not yet implemented"
PanicEncoding == "errEncoding"

-----------------------------------------------------------------------------
(* The value encoders Encode calls *)

\* n >= 0 in w <= 4 bytes, big endian
BigEndian(n, w) == [i \in 1..w |-> (n \div (256 ^ (w - i))) % 256]

\* the two's complement of n in w bytes, big endian (n within int32)
TwosComplement(n, w) ==
    LET low == IF w > 4 THEN 4 ELSE w
        m   == IF n >= 0 THEN n
               ELSE IF low = 4 THEN (n + 2147483647) + 1
               ELSE n + 256 ^ low
        b   == BigEndian(m, low)
        lo  == IF n < 0 /\ low = 4 THEN [b EXCEPT ![1] = b[1] + 128] ELSE b
    IN  Repeat(IF n < 0 THEN 255 ELSE 0, w - low) \o lo

EncodeBoolean(b) == IF b = 1 THEN <<255>> ELSE <<0>>

\* the IEEE-754 bits of the floating point values used here
EncodeFloat32(f) ==
    IF f = 0 THEN <<0, 0, 0, 0>>
    ELSE IF f = 1 THEN <<63, 128, 0, 0>>
    ELSE <<192, 0, 0, 0>>

EncodeFloat64(f) ==
    IF f = 0 THEN <<0, 0, 0, 0, 0, 0, 0, 0>>
    ELSE IF f = 1 THEN <<63, 240, 0, 0, 0, 0, 0, 0>>
    ELSE <<192, 0, 0, 0, 0, 0, 0, 0>>

\* a string of '0' and '1' packed most significant bit first, padded with 0
EncodeBitString(s) ==
    IF \E i \in 1..Len(s) : s[i] \notin {48, 49}
    THEN [out |-> Nil, err |-> PanicEncoding]
    ELSE LET bit(i) == IF i <= Len(s) THEN s[i] - 48 ELSE 0
             n == (Len(s) + 7) \div 8
         IN  [out |-> [j \in 1..n |->
                         bit(8 * j - 7) * 128 + bit(8 * j - 6) * 64
                         + bit(8 * j - 5) * 32 + bit(8 * j - 4) * 16
                         + bit(8 * j - 3) * 8 + bit(8 * j - 2) * 4
                         + bit(8 * j - 1) * 2 + bit(8 * j)],
              err |-> NoPanic]

\* the value of a hexadecimal digit, -1 for any other character
HexDigit(c) ==
    IF c \in 48..57 THEN c - 48
    ELSE IF c \in 65..70 THEN c - 55
    ELSE IF c \in 97..102 THEN c - 87
    ELSE 0 - 1

\* a string of hexadecimal digits to the octets it spells
EncodeOctetString(s) ==
    IF Len(s) % 2 = 1 \/ \E i \in 1..Len(s) : HexDigit(s[i]) < 0
    THEN [out |-> Nil, err |-> PanicEncoding]
    ELSE [out |-> [j \in 1..(Len(s) \div 2) |->
                     HexDigit(s[2 * j - 1]) * 16 + HexDigit(s[2 * j])],
          err |-> NoPanic]

\* the zero time.Time, which time.Parse returns with its error
ZeroTime == <<1, 1, 1, 0, 0, 0>>

IsDigits(s, from, to) == \A i \in from..to : s[i] \in 48..57

Decimal(s, from, to) ==
    LET RECURSIVE value(_, _)
        value(i, acc) == IF i > to THEN acc ELSE value(i + 1, acc * 10 + (s[i] - 48))
    IN  value(from, 0)

IsLeap(y) == (y % 4 = 0 /\ y % 100 # 0) \/ y % 400 = 0

DaysIn(y, mo) ==
    IF mo = 2 THEN (IF IsLeap(y) THEN 29 ELSE 28)
    ELSE IF mo \in {4, 6, 9, 11} THEN 30 ELSE 31

\* time.Parse("2006-01-02", s): <<>> when s does not parse
ParseDate(s) ==
    IF /\ Len(s) = 10
       /\ IsDigits(s, 1, 4) /\ s[5] = 45 /\ IsDigits(s, 6, 7) /\ s[8] = 45
       /\ IsDigits(s, 9, 10)
       /\ Decimal(s, 6, 7) \in 1..12
       /\ Decimal(s, 9, 10) \in 1..DaysIn(Decimal(s, 1, 4), Decimal(s, 6, 7))
    THEN <<Decimal(s, 1, 4), Decimal(s, 6, 7), Decimal(s, 9, 10)>>
    ELSE <<>>

\* time.Parse("15:04:05", s): <<>> when s does not parse
ParseClock(s) ==
    IF /\ Len(s) = 8
       /\ IsDigits(s, 1, 2) /\ s[3] = 58 /\ IsDigits(s, 4, 5) /\ s[6] = 58
       /\ IsDigits(s, 7, 8)
       /\ Decimal(s, 1, 2) < 24 /\ Decimal(s, 4, 5) < 60 /\ Decimal(s, 7, 8) < 60
    THEN <<Decimal(s, 1, 2), Decimal(s, 4, 5), Decimal(s, 7, 8)>>
    ELSE <<>>

\* data, _ = time.Parse(layout, v): the error is dropped, data is then the
\* zero time
ParseTime(tag, s) ==
    IF tag = TagDate
    THEN (IF ParseDate(s) = <<>> THEN ZeroTime ELSE ParseDate(s) \o <<0, 0, 0>>)
    ELSE IF tag = TagTime
    THEN (IF ParseClock(s) = <<>> THEN ZeroTime ELSE <<0, 1, 1>> \o ParseClock(s))
    ELSE IF /\ Len(s) = 19
            /\ s[11] = 32
            /\ ParseDate(SubSeq(s, 1, 10)) # <<>>
            /\ ParseClock(SubSeq(s, 12, 19)) # <<>>
    THEN ParseDate(SubSeq(s, 1, 10)) \o ParseClock(SubSeq(s, 12, 19))
    ELSE ZeroTime

\* the day of the week of a date, 1 (Monday) to 7 (Sunday)
Weekday(t) ==
    LET y == IF t[2] < 3 THEN t[1] - 1 ELSE t[1]
        k == <<0, 3, 2, 5, 0, 3, 5, 1, 4, 6, 2, 4>>[t[2]]
        w == (y + (y \div 4) - (y \div 100) + (y \div 400) + k + t[3]) % 7
    IN  IF w = 0 THEN 7 ELSE w

EncodeDate(t) == <<(t[1] \div 256) % 256, t[1] % 256, t[2], t[3], Weekday(t)>>

EncodeTime(t) == <<t[4], t[5], t[6], 0>>

EncodeDateTime(t) == EncodeDate(t) \o EncodeTime(t) \o <<0, 0, 0>>

Flatten(seqs) ==
    LET RECURSIVE cat(_)
        cat(i) == IF i > Len(seqs) THEN <<>> ELSE seqs[i] \o cat(i + 1)
    IN  cat(1)

-----------------------------------------------------------------------------
(* axdr/axdr.go: DlmsData.Encode *)

RECURSIVE DlmsDataEncode(_)

\* EncodeArray(data): every element is encoded in order; the panic of an
\* element goes through
EncodeArray(data) ==
    LET rs    == [i \in 1..Len(data) |-> DlmsDataEncode(data[i])]
        bad   == {i \in 1..Len(data) : rs[i].panic # NoPanic}
        first == IF bad = {} THEN Len(data) + 1
                 ELSE CHOOSE i \in bad : \A j \in bad : i <= j
    IN  [out   |-> IF bad = {} THEN Flatten([i \in 1..Len(data) |-> rs[i].out]) ELSE Nil,
         panic |-> IF bad = {} THEN NoPanic ELSE rs[first].panic,
         data  |-> [i \in 1..Len(data) |-> IF i <= first THEN rs[i].d ELSE data[i]]]

\* what one case of the switch leaves: rawValue, dataLength, or a panic
Case(rawValue, dataLength) ==
    [panic |-> NoPanic, rawValue |-> rawValue, dataLength |-> dataLength]

PanicCase(p) == [panic |-> p, rawValue |-> Nil, dataLength |-> Nil]

\* a case that asserts the type of Value and encodes it
Typed(d, type, rawValue) ==
    IF d.Value.type # type THEN PanicCase(PanicDataType) ELSE Case(rawValue, Nil)

\* the cases of TagArray and TagStructure
ArrayCase(d) ==
    IF d.Value.type # "[]*DlmsData" THEN PanicCase(PanicDataType)
    ELSE LET r == EncodeArray(d.Value.elems)
         IN  IF r.panic # NoPanic THEN PanicCase(r.panic)
             ELSE Case(r.out, EncodeLength(Len(d.Value.elems)))

\* the cases of TagOctetString, TagVisibleString and TagUTF8String
StringCase(d) ==
    IF d.Value.type # "string" THEN PanicCase(PanicDataType)
    ELSE LET r == EncodeOctetString(d.Value.str)
         IN  IF r.err # NoPanic THEN PanicCase(r.err)
             ELSE Case(r.out, EncodeLength(Len(r.out)))

BitStringCase(d) ==
    IF d.Value.type # "string" THEN PanicCase(PanicDataType)
    ELSE LET r == EncodeBitString(d.Value.str)
         IN  IF r.err # NoPanic THEN PanicCase(r.err)
             ELSE Case(r.out, EncodeLength(Len(d.Value.str)))

\* the cases of TagDateTime, TagDate and TagTime
TimeCase(d) ==
    LET t == IF d.Value.type = "string" THEN ParseTime(d.Tag, d.Value.str)
             ELSE d.Value.str
    IN  IF d.Value.type \notin {"time.Time", "string"} THEN PanicCase(PanicDataType)
        ELSE IF d.Tag = TagDateTime THEN Case(EncodeDateTime(t), Nil)
        ELSE IF d.Tag = TagDate THEN Case(EncodeDate(t), Nil)
        ELSE Case(EncodeTime(t), Nil)

\* switch d.Tag: a tag without a case leaves rawValue as it was and
\* dataLength empty
Switch(d) ==
    IF d.Tag = TagNull THEN Case(<<0>>, Nil)
    ELSE IF d.Tag \in {TagArray, TagStructure} THEN ArrayCase(d)
    ELSE IF d.Tag = TagBoolean THEN Typed(d, "bool", EncodeBoolean(d.Value.num))
    ELSE IF d.Tag = TagBitString THEN BitStringCase(d)
    ELSE IF d.Tag = TagDoubleLong THEN Typed(d, "int", TwosComplement(d.Value.num, 4))
    ELSE IF d.Tag = TagDoubleLongUnsigned THEN Typed(d, "uint32", BigEndian(d.Value.num, 4))
    ELSE IF d.Tag = TagFloatingPoint THEN Typed(d, "float32", EncodeFloat32(d.Value.num))
    ELSE IF d.Tag \in {TagOctetString, TagVisibleString, TagUTF8String} THEN StringCase(d)
    ELSE IF d.Tag = TagBCD THEN Typed(d, "int8", TwosComplement(d.Value.num, 1))
    ELSE IF d.Tag = TagInteger THEN Typed(d, "int8", TwosComplement(d.Value.num, 1))
    ELSE IF d.Tag = TagLong THEN Typed(d, "int16", TwosComplement(d.Value.num, 2))
    ELSE IF d.Tag = TagUnsigned THEN Typed(d, "uint8", BigEndian(d.Value.num, 1))
    ELSE IF d.Tag = TagLongUnsigned THEN Typed(d, "uint16", BigEndian(d.Value.num, 2))
    ELSE IF d.Tag = TagCompactArray THEN PanicCase(PanicNotImplemented)
    ELSE IF d.Tag = TagLong64 THEN Typed(d, "int64", TwosComplement(d.Value.num, 8))
    ELSE IF d.Tag = TagLong64Unsigned THEN Typed(d, "uint64", TwosComplement(d.Value.num, 8))
    ELSE IF d.Tag = TagEnum THEN Typed(d, "uint8", BigEndian(d.Value.num, 1))
    ELSE IF d.Tag = TagFloat32 THEN Typed(d, "float32", EncodeFloat32(d.Value.num))
    ELSE IF d.Tag = TagFloat64 THEN Typed(d, "float64", EncodeFloat64(d.Value.num))
    ELSE IF d.Tag \in {TagDateTime, TagDate, TagTime} THEN TimeCase(d)
    ELSE IF d.Tag = TagDontCare THEN Case(<<0>>, Nil)
    ELSE Case(d.rawValue, Nil)

\* the elements of d.Value after Encode went through them
Encoded(d) ==
    IF d.Tag \in {TagArray, TagStructure} /\ d.Value.type = "[]*DlmsData"
    THEN [d EXCEPT !.Value.elems = EncodeArray(d.Value.elems).data]
    ELSE d

\* d.Encode(): the bytes returned or the panic, and d afterwards
DlmsDataEncode(d) ==
    IF d.Value.type = "nil"
    THEN [out |-> Nil, panic |-> PanicNilValue, d |-> d]
    ELSE LET c   == Switch(d)
             raw == <<ToByte(d.Tag)>> \o c.dataLength \o c.rawValue
         IN  IF c.panic # NoPanic
             THEN [out |-> Nil, panic |-> c.panic, d |-> Encoded(d)]
             ELSE [out   |-> raw,
                   panic |-> NoPanic,
                   d     |-> [Encoded(d) EXCEPT !.rawValue = c.rawValue, !.raw = raw]]

-----------------------------------------------------------------------------
(* DlmsData objects to encode *)

\* tag values dataTag (an int) can hold that have no constant
UndefinedTags == {8, 11, 14, 28, 256}

Tags == DefinedTags \cup UndefinedTags

\* "", "1110", "101", "0a0B", "2020-01-01 10:00:00", "2020-01-01", "10:00:00"
Strings ==
    {<<>>,
     <<49, 49, 49, 48>>,
     <<49, 48, 49>>,
     <<48, 97, 48, 66>>,
     <<50, 48, 50, 48, 45, 48, 49, 45, 48, 49, 32, 49, 48, 58, 48, 48, 58, 48, 48>>,
     <<50, 48, 50, 48, 45, 48, 49, 45, 48, 49>>,
     <<49, 48, 58, 48, 48, 58, 48, 48>>}

Slices ==
    {<<>>,
     <<DlmsData(TagUnsigned, Number("uint8", 1))>>,
     <<DlmsData(TagStructure, Slice(<<>>)), DlmsData(TagLongUnsigned, Number("uint16", 0))>>,
     <<DlmsData(8, Number("uint8", 1))>>,
     <<DlmsData(TagUnsigned, Number("uint8", 1)), DlmsData(TagBoolean, Number("uint8", 1))>>}

Values ==
    {NilValue, Bool(TRUE), Bool(FALSE), Time(2020, 1, 1, 10, 0, 0),
     Number("int", 0 - 1), Number("int", 70000), Number("uint32", 5),
     Number("float32", 1), Number("float64", 1), Number("int8", 0 - 128),
     Number("int16", 0 - 2), Number("uint8", 255), Number("uint16", 258),
     Number("int64", 0 - 1), Number("uint64", 1)}
    \cup {String(s) : s \in Strings}
    \cup {Slice(e) : e \in Slices}

NotEncoded == [out |-> Nil, panic |-> "not called"]

DataIdle ==
    /\ dlms = DlmsData(TagNull, NilValue)
    /\ dlmsBefore = dlms
    /\ encoded = NotEncoded

\* d.Encode()
DataEncode ==
    /\ LET r == DlmsDataEncode(dlms)
       IN  /\ dlms' = r.d
           /\ encoded' = [out |-> r.out, panic |-> r.panic]
    /\ dlmsBefore' = dlms
    /\ UNCHANGED <<aarqVars, clientVars, lifeVars, adVars>>

\* d.Tag = tag, on an object that has been encoded: the object is then one
\* on which Encode has not been called
SetTag ==
    /\ encoded # NotEncoded
    /\ \E tag \in Tags : dlms' = [dlms EXCEPT !.Tag = tag]
    /\ dlmsBefore' = dlms'
    /\ encoded' = NotEncoded
    /\ UNCHANGED <<aarqVars, clientVars, lifeVars, adVars>>

-----------------------------------------------------------------------------
(* The specifications *)

InitAARQ ==
    /\ \E s \in SettingsSet : AarqIdle(s)
    /\ DataIdle
    /\ ClientIdle
    /\ ClientNew
    /\ DescriptorIdle

\* one call of EncodeAARQ(&settings)
CallEncodeAARQ ==
    /\ aarqCalls < MaxCalls
    /\ \E ok \in CipherOutcomes(CipherCfg(settings)) :
          LET r == EncodeAARQ(settings, ok)
          IN  /\ settings' = r.settings
              /\ aarq' = [out |-> r.out, err |-> r.err]
              /\ lastCfg' = r.cfg
    /\ prevSettings' = settings
    /\ aarqCalls' = aarqCalls + 1
    /\ UNCHANGED startCounter
    /\ UNCHANGED <<clientVars, lifeVars, adVars, dataVars>>

NextAARQ == CallEncodeAARQ

SpecAARQ == InitAARQ /\ [][NextAARQ]_vars

Init ==
    /\ ClientIdle
    /\ DataIdle
    /\ AarqIdle(DefaultSettings)
    /\ ClientNew
    /\ DescriptorIdle

Next ==
    \E g \in Goroutines :
        \/ Call(g)
        \/ Lock(g)
        \/ SetRequest(g)
        \/ SetRequestReply(g)
        \/ SetRequestWithStructOfElements(g)
        \/ BulkLoop(g)
        \/ BulkReply(g)
        \/ Unlock(g)

Spec == Init /\ [][Next]_vars

InitLifecycle == Init

NextLifecycle == Connect \/ Associate \/ Disconnect

SpecLifecycle == InitLifecycle /\ [][NextLifecycle]_vars

InitDescriptor ==
    /\ ad \in Descriptors
    /\ DataIdle
    /\ \E n \in 0..MaxBufLen : buf = Buffer(ad, n)
    /\ adOut = Nil
    /\ bufBefore = buf
    /\ adDec = NoDecode
    /\ adSteps = 0
    /\ ClientIdle
    /\ AarqIdle(DefaultSettings)
    /\ ClientNew

NextDescriptor == Encode \/ Decode

SpecDescriptor == InitDescriptor /\ [][NextDescriptor]_vars

InitData ==
    /\ \E tag \in Tags, value \in Values : dlms = DlmsData(tag, value)
    /\ dlmsBefore = dlms
    /\ encoded = NotEncoded
    /\ ClientIdle
    /\ AarqIdle(DefaultSettings)
    /\ ClientNew
    /\ DescriptorIdle

NextData == DataEncode \/ SetTag

SpecData == InitData /\ [][NextData]_vars

-----------------------------------------------------------------------------
(* Claims about EncodeAARQ, checked under SpecAARQ *)

\* the 16-bit halves of a uint32
Hi16(c) == c[1] * 256 + c[2]
Lo16(c) == c[3] * 256 + c[4]

\* b = a + 1 in uint32 arithmetic (modulo 2^32)
IsNext32(a, b) ==
    IF Lo16(a) = 65535
    THEN Lo16(b) = 0 /\ Hi16(b) = (Hi16(a) + 1) % 65536
    ELSE Lo16(b) = Lo16(a) + 1 /\ Hi16(b) = Hi16(a)

\* b = a + n as integers, for uint32 a and b (n >= 0 small)
IsSum32(a, n, b) ==
    LET lo == Lo16(a) + n
    IN  /\ Hi16(a) + (lo \div 65536) < 65536
        /\ Hi16(b) = Hi16(a) + (lo \div 65536)
        /\ Lo16(b) = lo % 65536

Called == aarqCalls > 0
Counter == settings.Ciphering.InvocationCounter
CounterBefore == prevSettings.Ciphering.InvocationCounter
Ciphered == prevSettings.Ciphering.Security # SecurityNone
PasswordMissing ==
    prevSettings.Authentication # AuthenticationNone /\ Len(prevSettings.Password) = 0

\* C2 (as claimed): a call on settings with Security # SecurityNone advances
\* the invocation counter by exactly 1 and ciphers with the counter value from
\* before the increment; a call with SecurityNone leaves the counter unchanged.
C2_Original ==
    Called =>
        IF Ciphered
        THEN IsNext32(CounterBefore, Counter) /\ lastCfg.FrameCounter = CounterBefore
        ELSE Counter = CounterBefore

\* C2 (amended): the increment by exactly 1 (in uint32 arithmetic), with the
\* Cipher configuration carrying the value from before it, happens on every
\* ciphered call that gets past generateAuthentication, also when CipherData
\* then fails; a ciphered call that fails on a missing password, and every
\* call with SecurityNone, leave the counter unchanged.
C2_CounterIncrementedOnce ==
    Called =>
        IF Ciphered /\ ~PasswordMissing
        THEN /\ IsNext32(CounterBefore, Counter)
             /\ lastCfg.FrameCounter = CounterBefore
             /\ lastCfg.Tag = TagGloInitiateRequest
        ELSE /\ Counter = CounterBefore
             /\ lastCfg = NoCfg

\* the ciphered scenario of the test: 0x107 becomes 0x108
C2_Witness ==
    /\ aarqCalls = 1
    /\ Ciphered
    /\ aarq.err = NoError
    /\ CounterBefore = <<0, 0, 1, 7>>
    /\ Counter = <<0, 0, 1, 8>>
    /\ lastCfg.FrameCounter = <<0, 0, 1, 7>>

\* C3 (as claimed): after N ciphered calls that reach the cipher, the counter
\* has increased by exactly N and is not lower after a call than before it.
C3_Original ==
    (Called /\ Ciphered /\ ~PasswordMissing) =>
        /\ ~Lt32(Counter, CounterBefore)
        /\ IsSum32(startCounter, aarqCalls, Counter)

\* the structure C8 describes; AnyByte stands for a byte the claim does not fix
AnyByte == 0 - 1

ApplicationContextNameOID == <<161, 9, 6, 7, 96, 133, 116, 5, 8, 1>>

ExpectedHead(s, contextByte) ==
    <<96, AnyByte>> \o ApplicationContextNameOID \o <<contextByte>>
    \o (IF Len(s.Ciphering.SystemTitle) > 0
        THEN <<166, AnyByte, AnyByte, AnyByte>> \o s.Ciphering.SystemTitle ELSE <<>>)
    \o (IF s.Authentication # AuthenticationNone
        THEN <<138, 2, 7, 128>>
             \o <<139, 7, 96, 133, 116, 5, 8, 2, s.Authentication>>
             \o <<172, AnyByte, 128, AnyByte>> \o s.Password
        ELSE <<>>)
    \o <<190, AnyByte, 4, AnyByte>>

ExpectedInitiateRequest(s) ==
    <<1, AnyByte, 0, 0, 6, 95, 31, 4, 0, 0, 24, 31>>
    \o <<s.MaxPduSize \div 256, s.MaxPduSize % 256>>

MatchesAt(out, from, exp) ==
    /\ Len(out) >= from + Len(exp) - 1
    /\ \A i \in 1..Len(exp) : exp[i] = AnyByte \/ out[from + i - 1] = exp[i]

\* out is the expected head followed, when unciphered, by exactly the
\* unciphered initiate-request, and when ciphered by a GLO frame
HasStructure(out, s, contextByte) ==
    LET head == ExpectedHead(s, contextByte)
    IN  /\ MatchesAt(out, 1, head)
        /\ IF s.Ciphering.Security = SecurityNone
           THEN /\ MatchesAt(out, Len(head) + 1, ExpectedInitiateRequest(s))
                /\ Len(out) = Len(head) + Len(ExpectedInitiateRequest(s))
           ELSE /\ Len(out) > Len(head)
                /\ out[Len(head) + 1] = TagGloInitiateRequest

PlainAARQ ==
    <<96, 29, 161, 9, 6, 7, 96, 133, 116, 5, 8, 1, 1, 190, 16, 4, 14,
      1, 0, 0, 0, 6, 95, 31, 4, 0, 0, 24, 31, 1, 0>>

IsPlain(s, maxPdu) ==
    /\ s.Authentication = AuthenticationNone
    /\ s.Ciphering.Security = SecurityNone
    /\ Len(s.Ciphering.SystemTitle) = 0
    /\ s.MaxPduSize = maxPdu

Produced == Called /\ aarq.err = NoError

\* C8 (as claimed): the context name ends in 1 exactly when ciphering is off,
\* and the plain settings with max PDU 1024 give the 31 bytes of the spec.
C8_Original ==
    Produced =>
        /\ HasStructure(aarq.out, prevSettings,
                        IF prevSettings.Ciphering.Security = SecurityNone THEN 1 ELSE 3)
        /\ IsPlain(prevSettings, 1024) => aarq.out = PlainAARQ

\* C8 (amended): the same structure, with the context name ending in 1 only
\* when ciphering is off and no system title is configured (3 otherwise), and
\* the 31 bytes 60 1D ... 01 00 being the AARQ of the plain settings with max
\* PDU 256; with max PDU 1024 the last two bytes are 04 00.
C8_Structure ==
    Produced =>
        /\ HasStructure(aarq.out, prevSettings,
                        IF /\ prevSettings.Ciphering.Security = SecurityNone
                           /\ Len(prevSettings.Ciphering.SystemTitle) = 0
                        THEN 1 ELSE 3)
        /\ IsPlain(prevSettings, 256) => aarq.out = PlainAARQ
        /\ IsPlain(prevSettings, 1024) =>
              aarq.out = SubSeq(PlainAARQ, 1, 29) \o <<4, 0>>

\* an unciphered, authenticated AARQ of settings with a system title
C8_Witness ==
    /\ Produced
    /\ prevSettings.Ciphering.Security = SecurityNone
    /\ Len(prevSettings.Ciphering.SystemTitle) = 8
    /\ prevSettings.Authentication = AuthenticationLow
    /\ prevSettings.Password = Password8
    /\ aarq.out[13] = 3
    /\ aarq.out[14] = 166

\* C9: EncodeAARQ returns an error and no bytes when authentication is on and
\* the password is empty, and when ciphering is on and the unicast key is
\* missing; it returns no error (and an AARQ) with authentication None and
\* ciphering off.
C9_Errors ==
    Called =>
        /\ PasswordMissing => (aarq.err # NoError /\ aarq.out = Nil)
        /\ (Ciphered /\ Len(prevSettings.Ciphering.UnicastKey) = 0) =>
              (aarq.err # NoError /\ aarq.out = Nil)
        /\ (prevSettings.Authentication = AuthenticationNone /\ ~Ciphered) =>
              (aarq.err = NoError /\ Len(aarq.out) > 0)

\* the second call of the Low-authentication test: the password was removed
C9_Witness ==
    /\ Called
    /\ prevSettings.Authentication = AuthenticationLow
    /\ prevSettings.Password = Nil
    /\ Len(prevSettings.Ciphering.UnicastKey) > 0
    /\ aarq.err = ErrPasswordRequired
    /\ aarq.out = Nil

-----------------------------------------------------------------------------
(* Claims about the Set operations of the client, checked under Spec *)

\* between c.mutex.Lock() and the deferred c.mutex.Unlock()
InCritical(g) == pc[g] \in {"entry", "loop", "wait", "unlock"}

\* the operation of g has its return value and has not yet unlocked
Returning(g, kind) == pc[g] = "unlock" /\ op[g].kind = kind

\* C1: at most one goroutine is between acquiring and releasing the mutex, it
\* is the holder of the mutex from its first check to its return (a bulk set
\* across all of its sets), and only the holder has a request in flight.
C1_MutualExclusion ==
    /\ \A g, h \in Goroutines : (InCritical(g) /\ InCritical(h)) => g = h
    /\ \A g \in Goroutines : InCritical(g) <=> mutex = g
    /\ \A g \in inflight : mutex = g /\ pc[g] = "wait"
    /\ Cardinality(inflight) <= 1

\* a bulk set has its second request in flight while another goroutine waits
\* for the mutex
C1_Witness ==
    \E g, h \in Goroutines :
        /\ g # h
        /\ pc[h] = "lock"
        /\ op[g].kind = "SetRequestWithStructOfElements"
        /\ pc[g] = "wait"
        /\ Len(loc[g].sent) = 2
        /\ g \in inflight

\* C4 (as claimed): a bulk set returns SetPartial only when the caller passed
\* continueOnSetRejected = true.
C4_Original ==
    \A g \in Goroutines :
        (Returning(g, "SetRequestWithStructOfElements") /\ ret[g] = ErrorSetPartial)
            => op[g].continueOnSetRejected

\* C4 (amended): a bulk set returns SetPartial only when at least one of its
\* sets succeeded and a set failed, whatever continueOnSetRejected is: with
\* continueOnSetRejected = false the loop stops at the first failing set and
\* returns SetPartial exactly when an earlier set had succeeded.  Once a set
\* has succeeded, the only other returns are nil and the error of
\* getAttributeDescriptor.
C4_PartialOnlyAfterSuccess ==
    \A g \in Goroutines :
        Returning(g, "SetRequestWithStructOfElements") =>
            /\ ret[g] = ErrorSetPartial =>
                  /\ loc[g].isSomethingDone
                  /\ loc[g].isSomethingFailed \/ loc[g].i < op[g].numField
            /\ (ret[g] = ErrorSetPartial /\ ~op[g].continueOnSetRejected) =>
                  /\ ~loc[g].isSomethingFailed
                  /\ loc[g].i < op[g].numField
            /\ loc[g].isSomethingDone =>
                  ret[g] \in {NoError, ErrorSetPartial, DescriptorError}

\* continueOnSetRejected = false: a set succeeded, the next was rejected
C4_Witness ==
    \E g \in Goroutines :
        /\ Returning(g, "SetRequestWithStructOfElements")
        /\ ~op[g].continueOnSetRejected
        /\ ret[g] = ErrorSetPartial
        /\ Len(loc[g].sent) = 2
        /\ loc[g].reply.kind = "SetResponseNormal"
        /\ loc[g].reply.result = TagAccReadWriteDenied

\* C5: SetRequest returns nil exactly when its request was answered by a
\* SetResponseNormal with result success; SetRejected for any other result,
\* InvalidResponse for any other PDU, and the error of
\* encodeSendReceiveAndDecode as it is when that fails.
C5_SetResult ==
    \A g \in Goroutines :
        Returning(g, "SetRequest") =>
            LET r == loc[g].reply
            IN  /\ ret[g] = NoError <=>
                      (r.kind = "SetResponseNormal" /\ r.result = TagAccSuccess)
                /\ (r.kind = "SetResponseNormal" /\ r.result # TagAccSuccess) =>
                      ret[g] = ErrorSetRejected
                /\ r.kind = "OtherPdu" => ret[g] = ErrorInvalidResponse
                /\ r.kind = "error" => ret[g] = r.err
                /\ r.kind # "none" <=> Len(loc[g].sent) = 1

\* a set answered with read-write-denied
C5_Witness ==
    \E g \in Goroutines :
        /\ Returning(g, "SetRequest")
        /\ loc[g].reply.kind = "SetResponseNormal"
        /\ loc[g].reply.result = TagAccReadWriteDenied
        /\ ret[g] = ErrorSetRejected

\* C6: SetRequest with a nil descriptor or with data MarshalData rejects
\* returns InvalidParameter, has sent nothing, and the mutex is released once
\* it has returned.
C6_InvalidParameter ==
    \A g \in Goroutines :
        /\ (Returning(g, "SetRequest")
              /\ (op[g].att = "nil" \/ op[g].data = "Unmarshalable")) =>
              /\ ret[g] = ErrorInvalidParameter
              /\ loc[g].sent = <<>>
              /\ loc[g].reply = NoReply
              /\ g \notin inflight
        /\ pc[g] = "done" => mutex # g

\* the nil descriptor with data that would have been sent
C6_Witness ==
    \E g \in Goroutines :
        /\ Returning(g, "SetRequest")
        /\ op[g].att = "nil"
        /\ op[g].data = "DlmsData"
        /\ ret[g] = ErrorInvalidParameter

-----------------------------------------------------------------------------
(* Claims about the life cycle of the client, checked under SpecLifecycle *)

\* C7: every Client.Disconnect calls the transport's Disconnect, whatever the
\* state of the client, and returns the transport's error; after a
\* Disconnect that succeeded IsAssociated reports false.
C7_DisconnectAlways ==
    [][ (last'.op = "Disconnect" /\ last'.n = last.n + 1) =>
          /\ transport'.Disconnect = transport.Disconnect + 1
          /\ last'.err = transport'.err
          /\ last'.err = NoError => ~IsAssociated' ]_vars

\* Disconnect of a client that never connected: the transport is asked and
\* its error returned
C7_Witness ==
    /\ last.op = "Disconnect"
    /\ last.n = 1
    /\ last.err = ErrTransport
    /\ transport.Disconnect = 1
    /\ transport.Connect = 0

-----------------------------------------------------------------------------
(* Claims about AttributeDescriptor, checked under SpecDescriptor *)

\* C10: Encode yields exactly 9 bytes (class id big-endian, the 6 OBIS bytes,
\* the attribute byte); a successful decode moves the caller's slice forward
\* by exactly 9 bytes, a failed one leaves it as it was, and every buffer
\* shorter than 9 bytes fails.
C10_FixedWidth ==
    /\ adOut # Nil =>
          /\ Len(adOut) = 9
          /\ adOut[1] * 256 + adOut[2] = ad.ClassID
          /\ \A i \in 1..6 : adOut[2 + i] = ad.InstanceID.bytes[i]
          /\ adOut[9] \in Byte
          /\ ToInt8(adOut[9]) = ad.AttributeID
    /\ adSteps > 0 =>
          /\ Len(bufBefore) < 9 => adDec.err # NoError
          /\ adDec.err = NoError =>
                /\ Len(buf) = Len(bufBefore) - 9
                /\ \A i \in 1..Len(buf) : buf[i] = bufBefore[9 + i]
          /\ adDec.err # NoError => buf = bufBefore

\* an 8-byte buffer was rejected and is still 8 bytes long
C10_Witness ==
    /\ adSteps = 1
    /\ Len(bufBefore) = 8
    /\ adDec.err # NoError
    /\ Len(buf) = 8

-----------------------------------------------------------------------------
(* Claims about DlmsData.Encode, checked under SpecData *)

\* Encode has been called on dlmsBefore and `encoded` is what came of it
EncodeCalled == encoded # NotEncoded

EncodeReturned == EncodeCalled /\ encoded.panic = NoPanic

\* the Go types of a payload of each defined tag; NULL and DONT_CARE have no
\* payload, so no type mismatches them
PayloadTypes(tag) ==
    IF tag \in {TagArray, TagStructure} THEN {"[]*DlmsData"}
    ELSE IF tag = TagBoolean THEN {"bool"}
    ELSE IF tag \in {TagBitString, TagOctetString, TagVisibleString, TagUTF8String}
    THEN {"string"}
    ELSE IF tag = TagDoubleLong THEN {"int"}
    ELSE IF tag = TagDoubleLongUnsigned THEN {"uint32"}
    ELSE IF tag \in {TagFloatingPoint, TagFloat32} THEN {"float32"}
    ELSE IF tag \in {TagBCD, TagInteger} THEN {"int8"}
    ELSE IF tag = TagLong THEN {"int16"}
    ELSE IF tag \in {TagUnsigned, TagEnum} THEN {"uint8"}
    ELSE IF tag = TagLongUnsigned THEN {"uint16"}
    ELSE IF tag = TagLong64 THEN {"int64"}
    ELSE IF tag = TagLong64Unsigned THEN {"uint64"}
    ELSE IF tag = TagFloat64 THEN {"float64"}
    ELSE IF tag \in {TagDateTime, TagDate, TagTime} THEN {"time.Time", "string"}
    ELSE IF tag = TagCompactArray THEN {}
    ELSE {v.type : v \in Values}

Mismatched == dlmsBefore.Value.type \notin PayloadTypes(dlmsBefore.Tag)

\* A value whose Go type does not match the payload type of its defined tag
\* makes Encode panic.
MismatchPanics ==
    (EncodeCalled /\ dlmsBefore.Tag \in DefinedTags /\ Mismatched)
        => encoded.panic # NoPanic

\* C11: Encode never returns bytes for a value it cannot encode faithfully:
\* when the Go type of Value does not match the payload type of the Tag, or
\* the Tag is not one of the defined tags, Encode panics.
C11_Original ==
    (EncodeCalled /\ (dlmsBefore.Tag \notin DefinedTags \/ Mismatched))
        => encoded.panic # NoPanic

\* the tags whose payload has a variable length
LengthTags ==
    {TagArray, TagStructure, TagBitString, TagOctetString, TagVisibleString,
     TagUTF8String}

\* the number of payload bytes of a tag of fixed width
Width(tag) ==
    IF tag \in {TagNull, TagDontCare} THEN 0
    ELSE IF tag \in {TagBoolean, TagBCD, TagInteger, TagUnsigned, TagEnum} THEN 1
    ELSE IF tag \in {TagLong, TagLongUnsigned} THEN 2
    ELSE IF tag \in {TagDoubleLong, TagDoubleLongUnsigned, TagFloatingPoint,
                     TagFloat32, TagTime} THEN 4
    ELSE IF tag = TagDate THEN 5
    ELSE IF tag \in {TagLong64, TagLong64Unsigned, TagFloat64} THEN 8
    ELSE 12

\* the length the prefix of a variable-length value announces: elements,
\* bits or bytes (all below 128 here, so the prefix is one byte)
Announced(d, out) ==
    IF d.Tag \in {TagArray, TagStructure} THEN Len(d.Value.elems)
    ELSE IF d.Tag = TagBitString THEN Len(d.Value.str)
    ELSE Len(out) - 2

\* the shape of the bytes Encode returned for d
WellShaped(d, out) ==
    /\ out[1] = d.Tag
    /\ IF d.Tag \in LengthTags
       THEN /\ Len(out) >= 2
            /\ out[2] = Announced(d, out)
            /\ d.Tag = TagBitString => Len(out) = 2 + (Len(d.Value.str) + 7) \div 8
            /\ Len(d.Value.elems) = 0 /\ d.Tag \in {TagArray, TagStructure}
                   => out = <<d.Tag, 0>>
       ELSE Len(out) = 1 + Width(d.Tag)

\* Every defined tag other than NULL and DONT_CARE encodes to the shape of
\* the length rules.
LengthRulesButNull ==
    (EncodeReturned /\ dlmsBefore.Tag \in DefinedTags \ {TagNull, TagDontCare})
        => WellShaped(dlmsBefore, encoded.out)

\* C12: only ARRAY, STRUCTURE, BIT_STRING, OCTET_STRING, VISIBLE_STRING and
\* UTF8_STRING carry a length prefix after the tag byte, every other tag has
\* the fixed width of its payload; NULL and DONT_CARE encode to the tag byte
\* alone, an empty ARRAY / STRUCTURE to 01 00 / 02 00.
C12_Original ==
    (EncodeReturned /\ dlmsBefore.Tag \in DefinedTags)
        => WellShaped(dlmsBefore, encoded.out)

-----------------------------------------------------------------------------
(* Claims about the order of the sets of a bulk set, checked under Spec *)

\* goroutine g is inside SetRequestWithStructOfElements, past the struct check
InBulk(g) ==
    /\ op[g].kind = "SetRequestWithStructOfElements"
    /\ pc[g] \in {"loop", "wait", "unlock"}

\* a field with an attribute descriptor that is not a nil pointer
HasDescriptorAndValue(field) == field \in {"DlmsData", "Marshalable", "Unmarshalable"}

\* what became of a field ends the loop
Stops(e, continueOnSetRejected) ==
    /\ e \notin {Skipped, NoError}
    /\ ~(e = ErrorSetRejected /\ continueOnSetRejected)

\* C13: the bulk set sends its requests in field order, at most one per
\* field and only for fields with a descriptor that are not nil pointers;
\* every such field the loop reaches is attempted; with
\* continueOnSetRejected a SetRejected does not end the loop, which then
\* goes on to the last field; and once a set has failed with another error
\* (or with SetRejected when continueOnSetRejected is false) no other field
\* is visited and no further request is sent.
C13_BulkOrder ==
    \A g \in Goroutines :
        InBulk(g) =>
            LET s    == loc[g].sent
                seen == loc[g].seen
                n    == Len(seen)
                cont == op[g].continueOnSetRejected
            IN  /\ \A k \in 1..(Len(s) - 1) : s[k][1] < s[k + 1][1]
                /\ \A k \in 1..Len(s) :
                      /\ s[k][1] \in 0..(op[g].numField - 1)
                      /\ HasDescriptorAndValue(s[k][2])
                      /\ s[k][1] < n => seen[s[k][1] + 1].field = s[k][2]
                /\ \A j \in 1..n :
                      /\ seen[j].err = Skipped <=> seen[j].field \in {"NoDescriptor", "NilPointer"}
                      /\ ~HasDescriptorAndValue(seen[j].field)
                             => \A k \in 1..Len(s) : s[k][1] # j - 1
                      /\ seen[j].field \in {"DlmsData", "Marshalable"}
                             => \E k \in 1..Len(s) : s[k] = <<j - 1, seen[j].field>>
                      /\ seen[j].field = "Unmarshalable" => seen[j].err = ErrorInvalidParameter
                      /\ Stops(seen[j].err, cont)
                             => /\ j = n
                                /\ pc[g] = "unlock"
                                /\ \A k \in 1..Len(s) : s[k][1] <= j - 1
                /\ (pc[g] = "unlock" /\ (n = 0 \/ ~Stops(seen[n].err, cont)))
                       => n = op[g].numField
                /\ pc[g] = "wait" => n = s[Len(s)][1]

\* C13 witness: with continueOnSetRejected the first set was rejected, the
\* second field was still set, and the call is returning SetPartial
C13_Witness ==
    \E g \in Goroutines :
        /\ InBulk(g)
        /\ pc[g] = "unlock"
        /\ op[g].continueOnSetRejected
        /\ Len(loc[g].sent) = 2
        /\ loc[g].seen[1].err = ErrorSetRejected
        /\ loc[g].seen[2].err = NoError
        /\ ret[g] = ErrorSetPartial

-----------------------------------------------------------------------------
(* Claims about a failed EncodeAARQ, checked under SpecAARQ *)

Failed == Called /\ aarq.err # NoError

\* C14 (as claimed): whenever EncodeAARQ returns an error the Settings are
\* unchanged, the invocation counter included.
C14_Original ==
    Failed => settings = prevSettings

\* C14: whenever EncodeAARQ returns an error nothing is returned and the
\* Settings are unchanged but for the invocation counter: it is unchanged
\* when the password is missing, and advanced by one (modulo 2^32) when
\* CipherData failed.
C14_OnlyCounterConsumed ==
    Failed =>
        /\ aarq.out = Nil
        /\ [settings EXCEPT !.Ciphering.InvocationCounter = CounterBefore] = prevSettings
        /\ aarq.err = ErrPasswordRequired => Counter = CounterBefore
        /\ aarq.err = ErrCipher => Ciphered /\ IsNext32(CounterBefore, Counter)
        /\ aarq.err \in {ErrPasswordRequired, ErrCipher}

\* C14 witness: a call failed in CipherData (no unicast key) and the counter
\* moved from 0x00000107 to 0x00000108
C14_Witness ==
    /\ Failed
    /\ aarq.err = ErrCipher
    /\ Len(prevSettings.Ciphering.UnicastKey) = 0
    /\ CounterBefore = <<0, 0, 1, 7>>
    /\ Counter = <<0, 0, 1, 8>>

-----------------------------------------------------------------------------
(* Claims about the length fields of the AARQ, checked under SpecAARQ *)

Succeeded == Called /\ aarq.err = NoError

Authenticated == prevSettings.Authentication # AuthenticationNone

\* the number of bytes before the authentication fields: the two bytes of
\* the AARQ header, the application context name and the calling AP title
BeforeAuthentication ==
    13 + (IF Len(prevSettings.Ciphering.SystemTitle) > 0
          THEN 4 + Len(prevSettings.Ciphering.SystemTitle) ELSE 0)

\* the index of the tag of the calling authentication value
AuthenticationValueAt == BeforeAuthentication + 14

\* the index of the tag of the user information
UserInformationAt ==
    BeforeAuthentication
    + (IF Authenticated THEN 17 + Len(prevSettings.Password) ELSE 0) + 1

\* the number of bytes of the initiate-request, plain or ciphered
InitiateRequestLen == Len(aarq.out) - (UserInformationAt + 3)

\* the length fields of the AARQ announce the bytes that follow them
LengthsExact ==
    /\ aarq.out[2] = Len(aarq.out) - 2
    /\ Authenticated =>
           /\ aarq.out[AuthenticationValueAt] =
                  BERTypeContext + BERTypeConstructed + PduTypeCallingAuthenticationValue
           /\ aarq.out[AuthenticationValueAt + 1] = 2 + Len(prevSettings.Password)
           /\ aarq.out[AuthenticationValueAt + 3] = Len(prevSettings.Password)
    /\ aarq.out[UserInformationAt] =
           BERTypeContext + BERTypeConstructed + PduTypeUserInformation
    /\ aarq.out[UserInformationAt + 1] = 2 + InitiateRequestLen
    /\ aarq.out[UserInformationAt + 3] = InitiateRequestLen

\* The length fields are exact in every AARQ of at most 257 bytes.
LengthsExactWhenShort ==
    (Succeeded /\ Len(aarq.out) - 2 < 256) => LengthsExact

\* C15: for every Settings for which EncodeAARQ succeeds, each one-byte
\* length field equals the number of bytes it announces: out[1] is
\* len(out) - 2, the calling-authentication-value lengths are
\* 2 + len(password) and len(password), the user-information lengths are
\* 2 + len(initiate-request) and len(initiate-request).
C15_Original ==
    Succeeded => LengthsExact

=============================================================================
